---- MODULE Spec2Model ----
(***************************************************************************)
(* A model of src/polygonScript.py: PolygonDataCollector, a collector that  *)
(* fetches eight kinds of market data from a vendor API and writes them to  *)
(* eight SQLite tables, its driver run_complete_collection and its          *)
(* reporter generate_summary_report.                                        *)
(*                                                                          *)
(* Column values are opaque strings; NULL is SQL NULL / Python None.  An    *)
(* API object is a record; an attribute or dict key the API left out is a   *)
(* field missing from the record's DOMAIN.  A table is the sequence of its  *)
(* rows in rowid order.                                                     *)
(***************************************************************************)
EXTENDS Integers, Sequences, FiniteSets, TLC

VARIABLES
    db,      \* the SQLite file: table name -> sequence of rows
    call,    \* the collection step executed last: inputs, outcome, log
    ncalls,  \* top-level operations started so far
    ti,      \* frame of collect_technical_indicators: ticker, next kind
    pc,      \* position of run_complete_collection
    tickers, \* run_complete_collection's local `tickers`
    i,       \* index of the per-ticker loop
    trace,   \* the steps run_complete_collection has started, in order
    entry    \* the collect_* call executed last: the tables when it was
             \* entered, whether it has logged an error, the indicator kinds
             \* it has requested

vars == <<db, call, ncalls, ti, pc, tickers, i, trace, entry>>

----------------------------------------------------------------------------
\* Bounds of the model.

\* longest list of records one API response carries
MaxBatch == 2
\* longest list of bars list_aggs yields
MaxBars == 3
\* longest list of values an indicator response carries
MaxValues == 1
\* top-level operations in one behaviour of Spec
MaxCalls == 2
\* longest explicit ticker list handed to run_complete_collection
MaxTickers == 2
\* rows the tables hold when a response with records is fed to a driver run
MaxDriverRows == 1

----------------------------------------------------------------------------
\* Values.

NULL == "NULL"

Symbols == {"ABC", "XYZ"}

\* all sequences over S of length at most n
RECURSIVE SeqsUpTo(_, _)
SeqsUpTo(S, n) ==
    IF n = 0 THEN {<<>>}
    ELSE LET shorter == SeqsUpTo(S, n - 1)
         IN  shorter \cup {Append(s, x) : s \in {t \in shorter : Len(t) = n - 1}, x \in S}

Range(s) == {s[k] : k \in 1..Len(s)}

IsPrefix(s, t) == Len(s) <= Len(t) /\ \A k \in 1..Len(s) : s[k] = t[k]

\* getattr(obj, name, None) and dict.get(name)
GetAttr(obj, name) == IF name \in DOMAIN obj THEN obj[name] ELSE NULL

----------------------------------------------------------------------------
\* Storage: the schema of init_database and SQLite's conflict handling.

Tables == {"tickers", "aggregates", "snapshots", "technical_indicators",
           "news", "dividends", "stock_splits", "market_holidays"}

PrimaryKey ==
    [tickers              |-> {"ticker"},
     aggregates           |-> {"ticker", "timestamp", "timespan", "multiplier"},
     snapshots            |-> {"ticker", "timestamp"},
     technical_indicators |-> {"ticker", "timestamp", "indicator_type"},
     news                 |-> {"id"},
     dividends            |-> {"ticker", "ex_dividend_date"},
     stock_splits         |-> {"ticker", "execution_date"},
     market_holidays      |-> {"date"}]

EmptyDb == [t \in Tables |-> <<>>]

\* Two rows collide on a primary key when all key columns are equal and none
\* is NULL: no key column is declared NOT NULL and none is an INTEGER
\* PRIMARY KEY, so SQLite admits NULL in them and treats NULLs as distinct.
Conflict(old, new, key) == \A c \in key : old[c] # NULL /\ old[c] = new[c]

\* an insert that deletes every row of the table before it adds the row
InsertOrClear(rows, new, key) == <<new>>

\* INSERT OR REPLACE of one row: colliding rows are deleted, the row is added
InsertOrReplace(rows, new, key) ==
    Append(SelectSeq(rows, LAMBDA old : ~Conflict(old, new, key)), new)

\* INSERT OR IGNORE of one row: the row is dropped when a row collides
InsertOrIgnore(rows, new, key) ==
    IF \E k \in 1..Len(rows) : Conflict(rows[k], new, key) THEN rows
    ELSE Append(rows, new)

\* cursor.executemany of one INSERT statement over a list of rows: the
\* statement is executed for the rows of the list one after the other.  The
\* list is taken in halves, the first half executed before the second, which
\* keeps the evaluation shallow for lists of hundreds of rows; a table is
\* not empty after an insert.
RECURSIVE ExecuteMany(_, _, _, _)
ExecuteMany(rows, batch, key, ignore) ==
    IF batch = <<>> THEN rows
    ELSE IF Len(batch) = 1
    THEN IF ignore THEN InsertOrIgnore(rows, batch[1], key)
         ELSE InsertOrReplace(rows, batch[1], key)
    ELSE LET half  == Len(batch) \div 2
             first == ExecuteMany(rows, SubSeq(batch, 1, half), key, ignore)
         IN  IF first # <<>>
             THEN ExecuteMany(first, SubSeq(batch, half + 1, Len(batch)), key, ignore)
             ELSE first

\* a save that empties the table before it inserts the batch
SaveTruncating(d, table, batch, ignore, dbfail) ==
    IF dbfail /\ batch # <<>> THEN d
    ELSE [d EXCEPT ![table] = ExecuteMany(<<>>, batch, PrimaryKey[table], ignore)]

\* A _save_* method: connect, executemany, commit, close.  When a statement
\* or the commit raises, commit is not reached and the connection is dropped
\* with its transaction open, which SQLite rolls back: the table keeps its
\* rows.  executemany over an empty list runs no statement, so only a
\* non-empty batch can fail.
Save(d, table, batch, ignore, dbfail) ==
    IF dbfail /\ batch # <<>> THEN d
    ELSE [d EXCEPT ![table] = ExecuteMany(d[table], batch, PrimaryKey[table], ignore)]

SaveRaises(batch, dbfail) == dbfail /\ batch # <<>>

\* The connection of a _save_* call at the moment the call hands control
\* back: "none" when no _save_* method was called; "closed" when conn.close()
\* was reached; "open" when executemany or commit raised, for conn.close()
\* is in no finally clause and the exception leaves the method before it.
Connection(batch, dbfail, saved) ==
    IF SaveRaises(batch, dbfail) THEN "open"
    ELSE IF saved THEN "closed"
    ELSE "none"

----------------------------------------------------------------------------
\* What one collection step leaves behind for its caller and in the log.

NoArgs == [ticker |-> NULL, timespan |-> NULL, multiplier |-> NULL, kind |-> NULL]

\* An iterator of the vendor client: it yields `records`, then ends or raises.
ClientApi(records, raises) == [records |-> records, raises |-> raises]

NoApi == ClientApi(<<>>, FALSE)

\* an except clause that logs and raises again
ExceptReraising(exc) == [logged |-> exc, raised |-> exc]

\* `except Exception as e: logger.error(...)`: the exception is logged and
\* not propagated to the caller.
Except(exc) == [logged |-> exc, raised |-> FALSE]

\* The record of a step: its inputs, the list handed to the _save_* method
\* (<<>> when none was called), whether that save raised, whether it
\* committed, the list returned and the outcome of the try statement.
Step(op, args, api, dbfail, batch, saved, exc, ret) ==
    [op |-> op, args |-> args, api |-> api, dbfail |-> SaveRaises(batch, dbfail),
     batch |-> batch,
     saved |-> saved, ret |-> ret,
     conn |-> Connection(batch, dbfail, saved),
     logged |-> Except(exc).logged, raised |-> Except(exc).raised]

NoCall == Step("none", NoArgs, NoApi, FALSE, <<>>, FALSE, FALSE, <<>>)

----------------------------------------------------------------------------
\* collect_all_tickers and _save_tickers

TickerRow(ticker) ==
    [ticker           |-> ticker.ticker,
     name             |-> ticker.name,
     market           |-> ticker.market,
     locale           |-> ticker.locale,
     primary_exchange |-> ticker.primary_exchange,
     type             |-> ticker.type,
     active           |-> ticker.active,
     currency_name    |-> ticker.currency_name,
     cik              |-> GetAttr(ticker, "cik"),
     composite_figi   |-> GetAttr(ticker, "composite_figi"),
     share_class_figi |-> GetAttr(ticker, "share_class_figi"),
     last_updated_utc |-> GetAttr(ticker, "last_updated_utc")]

_save_tickers(d, rows, dbfail) == Save(d, "tickers", rows, FALSE, dbfail)

\* a collect_all_tickers that returns an empty list when it has logged an error
collect_all_tickers_or_nothing(api, dbfail) ==
    LET all_tickers == [k \in 1..Len(api.records) |-> TickerRow(api.records[k])]
        exc == api.raises \/ SaveRaises(all_tickers, dbfail)
    IN  /\ db' = IF api.raises THEN db ELSE _save_tickers(db, all_tickers, dbfail)
        /\ call' = Step("tickers", NoArgs, api, dbfail,
                        IF api.raises THEN <<>> ELSE all_tickers,
                        ~exc, exc, IF exc THEN <<>> ELSE all_tickers)

\* The rows appended before the iterator raised are returned all the same;
\* _save_tickers is called whenever the iteration ends, with an empty list too.
collect_all_tickers(api, dbfail) ==
    LET all_tickers == [k \in 1..Len(api.records) |-> TickerRow(api.records[k])]
        exc == api.raises \/ SaveRaises(all_tickers, dbfail)
    IN  /\ db' = IF api.raises THEN db ELSE _save_tickers(db, all_tickers, dbfail)
        /\ call' = Step("tickers", NoArgs, api, dbfail,
                        IF api.raises THEN <<>> ELSE all_tickers,
                        ~exc, exc, all_tickers)

----------------------------------------------------------------------------
\* collect_aggregates and _save_aggregates
\* (from_date and to_date only select what the API returns)

\* a row dict with open and close exchanged
AggRowSwapped(ticker, agg, timespan, multiplier) ==
    [ticker       |-> ticker,
     timestamp    |-> agg.timestamp,
     open         |-> agg.close,
     high         |-> agg.high,
     low          |-> agg.low,
     close        |-> agg.open,
     volume       |-> agg.volume,
     vwap         |-> GetAttr(agg, "vwap"),
     timespan     |-> timespan,
     multiplier   |-> multiplier,
     transactions |-> GetAttr(agg, "transactions")]

AggRow(ticker, agg, timespan, multiplier) ==
    [ticker       |-> ticker,
     timestamp    |-> agg.timestamp,
     open         |-> agg.open,
     high         |-> agg.high,
     low          |-> agg.low,
     close        |-> agg.close,
     volume       |-> agg.volume,
     vwap         |-> GetAttr(agg, "vwap"),
     timespan     |-> timespan,
     multiplier   |-> multiplier,
     transactions |-> GetAttr(agg, "transactions")]

_save_aggregates(d, rows, dbfail) == Save(d, "aggregates", rows, FALSE, dbfail)

collect_aggregates(ticker, timespan, multiplier, api, dbfail) ==
    LET aggs == [k \in 1..Len(api.records) |->
                    AggRow(ticker, api.records[k], timespan, multiplier)]
        saving == ~api.raises /\ aggs # <<>>
        exc == api.raises \/ (saving /\ SaveRaises(aggs, dbfail))
    IN  /\ db' = IF saving THEN _save_aggregates(db, aggs, dbfail) ELSE db
        /\ call' = Step("aggregates",
                        [NoArgs EXCEPT !.ticker = ticker, !.timespan = timespan,
                                       !.multiplier = multiplier],
                        api, dbfail, IF saving THEN aggs ELSE <<>>,
                        saving /\ ~exc, exc, <<>>)

----------------------------------------------------------------------------
\* collect_snapshots and _save_snapshots

\* datetime.now().timestamp(): the clock advances with every top-level call
Now == "at" \o ToString(ncalls)

SnapshotRow(ticker_data, now) ==
    [ticker         |-> ticker_data.ticker,
     timestamp      |-> GetAttr(ticker_data.day, "timestamp"),
     open           |-> GetAttr(ticker_data.day, "open"),
     high           |-> GetAttr(ticker_data.day, "high"),
     low            |-> GetAttr(ticker_data.day, "low"),
     close          |-> GetAttr(ticker_data.day, "close"),
     volume         |-> GetAttr(ticker_data.day, "volume"),
     prev_close     |-> IF "prev_day" \in DOMAIN ticker_data
                        THEN GetAttr(ticker_data.prev_day, "close") ELSE NULL,
     change         |-> GetAttr(ticker_data, "todays_change"),
     change_percent |-> GetAttr(ticker_data, "todays_change_percent"),
     updated_at     |-> now]

\* only the records with a `day` attribute are mapped
SnapshotRows(records, now) ==
    LET with_day == SelectSeq(records, LAMBDA ticker_data : "day" \in DOMAIN ticker_data)
    IN  [k \in 1..Len(with_day) |-> SnapshotRow(with_day[k], now)]

_save_snapshots(d, rows, dbfail) == Save(d, "snapshots", rows, FALSE, dbfail)

\* With a non-empty `tickers` argument the body of the `if not tickers:` is
\* skipped: no request is made and nothing is written.
collect_snapshots(tickers_arg, api, dbfail) ==
    LET asked == tickers_arg = <<>>
        snapshots == IF asked THEN SnapshotRows(api.records, Now) ELSE <<>>
        saving == asked /\ ~api.raises /\ snapshots # <<>>
        exc == asked /\ (api.raises \/ (saving /\ SaveRaises(snapshots, dbfail)))
    IN  /\ db' = IF saving THEN _save_snapshots(db, snapshots, dbfail) ELSE db
        /\ call' = Step("snapshots",
                        [NoArgs EXCEPT !.ticker = IF asked THEN NULL ELSE tickers_arg[1]],
                        IF asked THEN api ELSE NoApi, dbfail,
                        IF saving THEN snapshots ELSE <<>>,
                        saving /\ ~exc, exc, <<>>)

----------------------------------------------------------------------------
\* The two HTTP endpoints called through self.session.

\* session.get raises, or answers with a status and a body; the body is not
\* JSON (response.json() raises) or it is the JSON object `body`.
HttpRaise == [raises |-> TRUE, status |-> NULL, is_json |-> FALSE, body |-> [results |-> <<>>]]

HttpResponse(status, is_json, body) ==
    [raises |-> FALSE, status |-> status, is_json |-> is_json, body |-> body]

\* json.dumps of a list of strings
RECURSIVE JsonItems(_)
JsonItems(list) ==
    IF list = <<>> THEN ""
    ELSE "\"" \o Head(list) \o "\""
         \o (IF Tail(list) = <<>> THEN "" ELSE ", " \o JsonItems(Tail(list)))

JsonDumps(list) == "[" \o JsonItems(list) \o "]"

----------------------------------------------------------------------------
\* collect_news and _save_news

NewsRow(article) ==
    LET article_tickers == IF "tickers" \in DOMAIN article THEN article.tickers ELSE <<>>
    IN  [id            |-> GetAttr(article, "id"),
         ticker        |-> IF article_tickers # <<>> THEN article_tickers[1] ELSE NULL,
         title         |-> GetAttr(article, "title"),
         author        |-> GetAttr(article, "author"),
         published_utc |-> GetAttr(article, "published_utc"),
         article_url   |-> GetAttr(article, "article_url"),
         amp_url       |-> GetAttr(article, "amp_url"),
         image_url     |-> GetAttr(article, "image_url"),
         description   |-> GetAttr(article, "description"),
         keywords      |-> JsonDumps(IF "keywords" \in DOMAIN article
                                     THEN article.keywords ELSE <<>>)]

\* _save_news with INSERT OR REPLACE, as in the other _save_* methods
_save_news_replacing(d, rows, dbfail) == Save(d, "news", rows, FALSE, dbfail)

\* INSERT OR IGNORE
_save_news(d, rows, dbfail) == Save(d, "news", rows, TRUE, dbfail)

\* (`ticker` and `limit` only select what the API returns)
collect_news(ticker, http, dbfail) ==
    LET parsed == ~http.raises /\ http.status = "200" /\ http.is_json
        results == IF parsed /\ "results" \in DOMAIN http.body
                   THEN http.body.results ELSE <<>>
        news_items == [k \in 1..Len(results) |-> NewsRow(results[k])]
        saving == parsed /\ news_items # <<>>
        exc == \/ http.raises
               \/ (~http.raises /\ http.status = "200" /\ ~http.is_json)
               \/ (saving /\ SaveRaises(news_items, dbfail))
    IN  /\ db' = IF saving THEN _save_news(db, news_items, dbfail) ELSE db
        /\ call' = Step("news", [NoArgs EXCEPT !.ticker = ticker],
                        [records |-> results, raises |-> http.raises, http |-> http],
                        dbfail, IF saving THEN news_items ELSE <<>>,
                        saving /\ ~exc, exc, <<>>)

----------------------------------------------------------------------------
\* collect_dividends and _save_dividends

DividendRow(dividend) ==
    [ticker           |-> dividend.ticker,
     ex_dividend_date |-> dividend.ex_dividend_date,
     payment_date     |-> dividend.payment_date,
     record_date      |-> dividend.record_date,
     declared_date    |-> GetAttr(dividend, "declaration_date"),
     amount           |-> dividend.cash_amount,
     flag             |-> GetAttr(dividend, "dividend_type"),
     currency         |-> dividend.currency]

\* a save that leaves out the first row of the list
_save_dividends_skipping(d, rows, dbfail) == Save(d, "dividends", Tail(rows), FALSE, dbfail)

_save_dividends(d, rows, dbfail) == Save(d, "dividends", rows, FALSE, dbfail)

collect_dividends(ticker, api, dbfail) ==
    LET dividends == [k \in 1..Len(api.records) |-> DividendRow(api.records[k])]
        saving == ~api.raises /\ dividends # <<>>
        exc == api.raises \/ (saving /\ SaveRaises(dividends, dbfail))
    IN  /\ db' = IF saving THEN _save_dividends(db, dividends, dbfail) ELSE db
        /\ call' = Step("dividends", [NoArgs EXCEPT !.ticker = ticker], api, dbfail,
                        IF saving THEN dividends ELSE <<>>, saving /\ ~exc, exc, <<>>)

----------------------------------------------------------------------------
\* collect_splits and _save_splits

SplitRow(split) ==
    [ticker         |-> split.ticker,
     execution_date |-> split.execution_date,
     split_from     |-> split.split_from,
     split_to       |-> split.split_to]

_save_splits(d, rows, dbfail) == Save(d, "stock_splits", rows, FALSE, dbfail)

collect_splits(ticker, api, dbfail) ==
    LET splits == [k \in 1..Len(api.records) |-> SplitRow(api.records[k])]
        saving == ~api.raises /\ splits # <<>>
        exc == api.raises \/ (saving /\ SaveRaises(splits, dbfail))
    IN  /\ db' = IF saving THEN _save_splits(db, splits, dbfail) ELSE db
        /\ call' = Step("splits", [NoArgs EXCEPT !.ticker = ticker], api, dbfail,
                        IF saving THEN splits ELSE <<>>, saving /\ ~exc, exc, <<>>)

----------------------------------------------------------------------------
\* collect_market_holidays and _save_holidays

HolidayRow(holiday) ==
    [date     |-> holiday.date,
     name     |-> holiday.name,
     exchange |-> holiday.exchange,
     status   |-> holiday.status]

_save_holidays(d, rows, dbfail) == Save(d, "market_holidays", rows, FALSE, dbfail)

collect_market_holidays(api, dbfail) ==
    LET holidays == [k \in 1..Len(api.records) |-> HolidayRow(api.records[k])]
        saving == ~api.raises /\ holidays # <<>>
        exc == api.raises \/ (saving /\ SaveRaises(holidays, dbfail))
    IN  /\ db' = IF saving THEN _save_holidays(db, holidays, dbfail) ELSE db
        /\ call' = Step("holidays", NoArgs, api, dbfail,
                        IF saving THEN holidays ELSE <<>>, saving /\ ~exc, exc, <<>>)

----------------------------------------------------------------------------
\* collect_technical_indicators and _save_indicators

indicators == <<"sma", "ema", "rsi", "macd">>

\* a row tuple with the value in the signal column too
IndicatorRowShifted(ticker, indicator_type, value) ==
    [ticker          |-> ticker,
     timestamp       |-> GetAttr(value, "timestamp"),
     indicator_type  |-> indicator_type,
     value           |-> GetAttr(value, "value"),
     signal_value    |-> GetAttr(value, "value"),
     histogram_value |-> GetAttr(value, "signal")]

IndicatorRow(ticker, indicator_type, value) ==
    [ticker          |-> ticker,
     timestamp       |-> GetAttr(value, "timestamp"),
     indicator_type  |-> indicator_type,
     value           |-> GetAttr(value, "value"),
     signal_value    |-> GetAttr(value, "signal"),
     histogram_value |-> GetAttr(value, "histogram")]

\* the rows are built after connecting, from every value of the list
_save_indicators(d, ticker, indicator_type, values, dbfail) ==
    Save(d, "technical_indicators",
         [k \in 1..Len(values) |-> IndicatorRow(ticker, indicator_type, values[k])],
         FALSE, dbfail)

\* One iteration of `for indicator in indicators`: the request for one kind.
\* The try statement is inside the loop, so the loop goes on after a failure.
\* _save_indicators is called whenever the body has results.values, with an
\* empty list too.
IndicatorRequest(ticker, indicator, http, dbfail) ==
    LET parsed == ~http.raises /\ http.status = "200" /\ http.is_json
        saving == /\ parsed
                  /\ "results" \in DOMAIN http.body
                  /\ "values" \in DOMAIN http.body.results
        values == IF saving THEN http.body.results.values ELSE <<>>
        rows == [k \in 1..Len(values) |-> IndicatorRow(ticker, indicator, values[k])]
        exc == \/ http.raises
               \/ (~http.raises /\ http.status = "200" /\ ~http.is_json)
               \/ (saving /\ SaveRaises(rows, dbfail))
    IN  /\ db' = IF saving THEN _save_indicators(db, ticker, indicator, values, dbfail)
                 ELSE db
        /\ call' = Step("indicators", [NoArgs EXCEPT !.ticker = ticker, !.kind = indicator],
                        [records |-> values, raises |-> http.raises, http |-> http],
                        dbfail, IF saving THEN rows ELSE <<>>,
                        saving /\ ~exc, exc, <<>>)

\* The frame of collect_technical_indicators: `next` is the index in
\* `indicators` of the kind requested next, 0 outside the method.
NoFrame == [ticker |-> NULL, next |-> 0]

\* a loop that is left when a request has logged an error
AfterIndicatorStopping(ticker, k) ==
    IF k < Len(indicators) /\ ~call'.logged THEN [ticker |-> ticker, next |-> k + 1]
    ELSE NoFrame

\* where the loop goes after the request for indicators[k]
AfterIndicator(ticker, k) ==
    IF k < Len(indicators) THEN [ticker |-> ticker, next |-> k + 1] ELSE NoFrame

\* The method, one request per step: entered for `ticker` when no frame is
\* open, continued otherwise.
collect_technical_indicators(ticker, http, dbfail) ==
    LET k == IF ti.next = 0 THEN 1 ELSE ti.next
        t == IF ti.next = 0 THEN ticker ELSE ti.ticker
    IN  /\ IndicatorRequest(t, indicators[k], http, dbfail)
        /\ ti' = AfterIndicator(t, k)

----------------------------------------------------------------------------
\* generate_summary_report: connect, COUNT(*) of every table, close; nothing
\* is written.

Summary(d) == [t \in Tables |-> Len(d[t])]

generate_summary_report ==
    /\ db' = db
    /\ call' = [Step("summary", NoArgs, NoApi, FALSE, <<>>, FALSE, FALSE, <<>>)
                  EXCEPT !.ret = <<Summary(db)>>, !.conn = "closed"]

----------------------------------------------------------------------------
\* What the API can answer: small sets of objects of the vendor's shapes.

Batches(S) == SeqsUpTo(S, MaxBatch)

\* A client iterator over objects of S: it ends after any batch, or raises
\* before the first or after the first record.
ClientApis(S) ==
    {ClientApi(records, FALSE) : records \in Batches(S)}
    \cup {ClientApi(records, TRUE) : records \in SeqsUpTo(S, 1)}

Optional(obj, more, present) == IF present THEN obj @@ more ELSE obj

TickerObj(symbol, name, full) ==
    Optional([ticker |-> symbol, name |-> name, market |-> "stocks", locale |-> "us",
              primary_exchange |-> "XNAS", type |-> "CS", active |-> "1",
              currency_name |-> "usd"],
             [cik |-> "cik1", composite_figi |-> "figi1", share_class_figi |-> "figi2",
              last_updated_utc |-> "u1"],
             full)

TickerObjs == {TickerObj("ABC", "n1", TRUE), TickerObj("ABC", "n2", FALSE),
               TickerObj("XYZ", "n1", FALSE)}

\* list_aggs is asked for sort="asc": one bar per time bucket, oldest first
Timestamps == <<"t1", "t2", "t3">>

Bar(timestamp, p, full) ==
    Optional([timestamp |-> timestamp, open |-> "o" \o p, high |-> "h" \o p,
              low |-> "l" \o p, close |-> "c" \o p, volume |-> "v" \o p],
             [vwap |-> "w" \o p, transactions |-> "n" \o p],
             full)

\* a bar of the first bucket comes in two versions, with different values
BarsAt(k) ==
    IF k = 1 THEN {Bar(Timestamps[1], "1", TRUE), Bar(Timestamps[1], "2", FALSE)}
    ELSE {Bar(Timestamps[k], "1", TRUE)}

RECURSIVE AscendingBars(_)
AscendingBars(k) ==
    IF k > Len(Timestamps) THEN {<<>>}
    ELSE LET later == AscendingBars(k + 1)
         IN  later \cup {<<bar>> \o rest : bar \in BarsAt(k), rest \in later}

AggApis ==
    {ClientApi(records, FALSE) : records \in {b \in AscendingBars(1) : Len(b) <= MaxBars}}
    \cup {ClientApi(records, TRUE) : records \in {b \in AscendingBars(1) : Len(b) <= 1}}

AggSpans == {<<"day", "1">>, <<"hour", "1">>, <<"minute", "5">>}

Day(timestamp, p) ==
    Optional([open |-> "o" \o p, high |-> "h" \o p, low |-> "l" \o p,
              close |-> "c" \o p, volume |-> "v" \o p],
             [timestamp |-> timestamp],
             timestamp # NULL)

\* a snapshot with a dated day bar, one whose day bar has no timestamp, and
\* one without a day bar
SnapshotObjs ==
    {[ticker |-> "ABC", day |-> Day("t1", "1"), prev_day |-> [close |-> "c0"],
      todays_change |-> "ch1", todays_change_percent |-> "pct1"],
     [ticker |-> "ABC", day |-> Day(NULL, "2")],
     [ticker |-> "XYZ", todays_change |-> "ch1"]}

Dividend(ticker, ex_dividend_date, cash_amount, full) ==
    Optional([ticker |-> ticker, ex_dividend_date |-> ex_dividend_date,
              payment_date |-> "pay1", record_date |-> "rec1",
              cash_amount |-> cash_amount, currency |-> "USD"],
             [declaration_date |-> "decl1", dividend_type |-> "CD"],
             full)

DividendObjs == {Dividend("ABC", "d1", "a1", TRUE), Dividend("ABC", "d1", "a2", FALSE),
                 Dividend("XYZ", "d1", "a1", FALSE)}

Split(ticker, execution_date, split_to) ==
    [ticker |-> ticker, execution_date |-> execution_date, split_from |-> "1",
     split_to |-> split_to]

SplitObjs == {Split("ABC", "d1", "2"), Split("ABC", "d1", "3"), Split("ABC", "d2", "2")}

Holiday(date, status) ==
    [date |-> date, name |-> "New Year", exchange |-> "NYSE", status |-> status]

HolidayObjs == {Holiday("d1", "closed"), Holiday("d1", "early-close"),
                Holiday("d2", "closed")}

\* two versions of article n1, and an article without id, tickers, keywords
Articles ==
    {[id |-> "n1", tickers |-> <<"ABC", "XYZ">>, title |-> "T1", author |-> "au1",
      published_utc |-> "u1", article_url |-> "url1", amp_url |-> "amp1",
      image_url |-> "img1", description |-> "de1", keywords |-> <<"k1", "k2">>],
     [id |-> "n1", tickers |-> <<"XYZ">>, title |-> "T2", keywords |-> <<>>],
     [title |-> "T3"]}

\* session.get raises; a status other than 200; a body that is not JSON; a
\* JSON object without the expected keys; a JSON object with them
HttpFailures(nokeys) ==
    {HttpRaise, HttpResponse("500", TRUE, nokeys), HttpResponse("200", FALSE, nokeys),
     HttpResponse("200", TRUE, nokeys)}

NewsHttps ==
    HttpFailures([status |-> "ERROR"])
    \cup {HttpResponse("200", TRUE, [results |-> results]) : results \in Batches(Articles)}

\* The values of an indicator response: sma, ema and rsi values carry a
\* timestamp and a value, macd values a signal and a histogram besides.
IndicatorValues(indicator) ==
    LET more == IF indicator = "macd" THEN [signal |-> "s1", histogram |-> "g1"]
                ELSE [x \in {} |-> NULL]
    IN  {[timestamp |-> "t1", value |-> "x1"] @@ more,
         [timestamp |-> "t1", value |-> "x2"] @@ more}

IndicatorHttps(indicator) ==
    HttpFailures([status |-> "ERROR"])
    \cup {HttpResponse("200", TRUE, [results |-> [underlying |-> "u"]])}
    \cup {HttpResponse("200", TRUE, [results |-> [values |-> values]]) :
            values \in SeqsUpTo(IndicatorValues(indicator), MaxValues)}

----------------------------------------------------------------------------
\* The collector used operation by operation (main(), option 3): any
\* operation may be called next, one at a time.

Booleans == {TRUE, FALSE}

NoEntry == [db0 |-> EmptyDb, logged |-> FALSE, requests |-> <<>>]

\* a collect_* method or generate_summary_report is entered
Enter ==
    entry' = [db0 |-> db, logged |-> call'.logged,
              requests |-> IF call'.op = "indicators" THEN <<call'.args.kind>> ELSE <<>>]

\* the call in progress makes its next request
Continue ==
    entry' = [db0 |-> entry.db0, logged |-> entry.logged \/ call'.logged,
              requests |-> Append(entry.requests, call'.args.kind)]

Idle == pc = "idle" /\ ti.next = 0 /\ ncalls < MaxCalls

Called == /\ ncalls' = ncalls + 1
          /\ Enter
          /\ UNCHANGED <<pc, tickers, i, trace>>

CallCollectAllTickers ==
    /\ Idle
    /\ \E api \in ClientApis(TickerObjs), dbfail \in Booleans :
          collect_all_tickers(api, dbfail)
    /\ Called /\ UNCHANGED ti

CallCollectAggregates ==
    /\ Idle
    /\ \E ticker \in Symbols, span \in AggSpans, api \in AggApis, dbfail \in Booleans :
          collect_aggregates(ticker, span[1], span[2], api, dbfail)
    /\ Called /\ UNCHANGED ti

CallCollectSnapshots ==
    /\ Idle
    /\ \E tickers_arg \in {<<>>, <<"ABC">>}, api \in ClientApis(SnapshotObjs),
          dbfail \in Booleans :
          collect_snapshots(tickers_arg, api, dbfail)
    /\ Called /\ UNCHANGED ti

CallCollectNews ==
    /\ Idle
    /\ \E ticker \in {NULL, "ABC"}, http \in NewsHttps, dbfail \in Booleans :
          collect_news(ticker, http, dbfail)
    /\ Called /\ UNCHANGED ti

CallCollectDividends ==
    /\ Idle
    /\ \E ticker \in {NULL, "ABC"}, api \in ClientApis(DividendObjs), dbfail \in Booleans :
          collect_dividends(ticker, api, dbfail)
    /\ Called /\ UNCHANGED ti

CallCollectSplits ==
    /\ Idle
    /\ \E ticker \in {NULL, "ABC"}, api \in ClientApis(SplitObjs), dbfail \in Booleans :
          collect_splits(ticker, api, dbfail)
    /\ Called /\ UNCHANGED ti

CallCollectMarketHolidays ==
    /\ Idle
    /\ \E api \in ClientApis(HolidayObjs), dbfail \in Booleans :
          collect_market_holidays(api, dbfail)
    /\ Called /\ UNCHANGED ti

\* the first request of a call of collect_technical_indicators
CallCollectTechnicalIndicators ==
    /\ Idle
    /\ \E ticker \in {"ABC"}, http \in IndicatorHttps(indicators[1]), dbfail \in Booleans :
          collect_technical_indicators(ticker, http, dbfail)
    /\ Called

\* the next request of the call in progress
NextIndicator ==
    /\ pc = "idle" /\ ti.next # 0
    /\ \E http \in IndicatorHttps(indicators[ti.next]), dbfail \in Booleans :
          collect_technical_indicators(ti.ticker, http, dbfail)
    /\ Continue
    /\ UNCHANGED <<ncalls, pc, tickers, i, trace>>

CallGenerateSummaryReport ==
    /\ Idle
    /\ generate_summary_report
    /\ Called /\ UNCHANGED ti

Init ==
    /\ db = EmptyDb
    /\ call = NoCall
    /\ ncalls = 0
    /\ ti = NoFrame
    /\ pc = "idle"
    /\ tickers = <<>>
    /\ i = 0
    /\ trace = <<>>
    /\ entry = NoEntry

Next ==
    \/ CallCollectAllTickers
    \/ CallCollectAggregates
    \/ CallCollectSnapshots
    \/ CallCollectTechnicalIndicators
    \/ NextIndicator
    \/ CallCollectNews
    \/ CallCollectDividends
    \/ CallCollectSplits
    \/ CallCollectMarketHolidays
    \/ CallGenerateSummaryReport

Spec == Init /\ [][Next]_vars

----------------------------------------------------------------------------
\* run_complete_collection(tickers, days_back), one statement per step.
\* (start_date and end_date only select what the API returns)

TickerLimit == 100

TotalRows(d) ==
    Len(d["tickers"]) + Len(d["aggregates"]) + Len(d["snapshots"])
    + Len(d["technical_indicators"]) + Len(d["news"]) + Len(d["dividends"])
    + Len(d["stock_splits"]) + Len(d["market_holidays"])

\* What the API answers during a run: an exception, no record or one record,
\* records only while the tables hold fewer than MaxDriverRows rows.
RunClientApis(S) ==
    {api \in ClientApis(S) : Len(api.records) <= 1
                             /\ (api.records = <<>> \/ TotalRows(db) < MaxDriverRows)}

RunAggApis ==
    {api \in AggApis : Len(api.records) <= 1
                       /\ (api.records = <<>> \/ TotalRows(db) < MaxDriverRows)}

RunNewsHttps ==
    {http \in NewsHttps :
        "results" \in DOMAIN http.body =>
            /\ Len(http.body.results) <= 1
            /\ (http.body.results = <<>> \/ TotalRows(db) < MaxDriverRows)}

RunIndicatorHttps(indicator) ==
    {http \in IndicatorHttps(indicator) :
        ("results" \in DOMAIN http.body /\ "values" \in DOMAIN http.body.results) =>
            (http.body.results.values = <<>> \/ TotalRows(db) < MaxDriverRows)}

\* the statements before the loop, and the loop body, as they are written
\* the statements before the loop with the news before the snapshots
market_wide_news_first == <<"holidays", "news", "snapshots", "dividends", "splits">>

market_wide == <<"holidays", "snapshots", "news", "dividends", "splits">>

per_ticker == <<"agg_day", "agg_hour", "agg_minute", "indicators", "ticker_news", "sleep">>

IndexOf(seq, x) == CHOOSE k \in 1..Len(seq) : seq[k] = x

\* `for i, ticker in enumerate(tickers)`: the body for the k-th ticker, or
\* the statements after the loop
ForTicker(k, list) ==
    IF k <= Len(list) THEN [pc |-> per_ticker[1], i |-> k]
    ELSE [pc |-> "summary", i |-> k]

\* the statement executed after `label` returns
Following(label, k, list) ==
    IF label = "resolve" THEN [pc |-> market_wide[1], i |-> k]
    ELSE IF label \in Range(market_wide)
    THEN IF IndexOf(market_wide, label) < Len(market_wide)
         THEN [pc |-> market_wide[IndexOf(market_wide, label) + 1], i |-> k]
         ELSE ForTicker(1, list)
    ELSE IF label \in Range(per_ticker)
    THEN IF IndexOf(per_ticker, label) < Len(per_ticker)
         THEN [pc |-> per_ticker[IndexOf(per_ticker, label) + 1], i |-> k]
         ELSE ForTicker(k + 1, list)
    ELSE [pc |-> "done", i |-> k]

\* a run that ends at the first error a collect_* method logs
GotoHalting(label, list) ==
    /\ pc' = IF call'.raised \/ call'.logged THEN "crashed"
             ELSE Following(label, i, list).pc
    /\ i' = Following(label, i, list).i

\* An exception a collect_* method lets through would end the run.
Goto(label, list) ==
    /\ pc' = IF call'.raised THEN "crashed" ELSE Following(label, i, list).pc
    /\ i' = Following(label, i, list).i

Started(step, ticker) == trace' = Append(trace, [step |-> step, ticker |-> ticker])

\* the history of the run in progress: the database it found, and the
\* tickers (NULL for the statements before the loop) for which a collect_*
\* method has logged an error
RunEntry == [db0 |-> EmptyDb, logged |-> FALSE, requests |-> <<>>, failed |-> {}]

Within(ticker) ==
    entry' = [entry EXCEPT !.logged = @ \/ call'.logged,
                           !.failed = IF call'.logged THEN @ \cup {ticker} ELSE @]

\* a list of at most n elements that keeps the last ones
LastN(list, n) ==
    SubSeq(list, IF Len(list) < n THEN 1 ELSE Len(list) - n + 1, Len(list))

\* tickers[:100]
FirstN(list, n) == SubSeq(list, 1, IF Len(list) < n THEN Len(list) ELSE n)

\* `if not tickers:` with no list or an empty one
RunCollectAllTickers ==
    /\ pc = "resolve" /\ tickers = <<>>
    /\ \E api \in RunClientApis(TickerObjs), dbfail \in Booleans :
          collect_all_tickers(api, dbfail)
    /\ tickers' = [k \in 1..Len(FirstN(call'.ret, TickerLimit)) |-> call'.ret[k].ticker]
    /\ Started("collect_all_tickers", NULL) /\ Within(NULL)
    /\ Goto("resolve", tickers')
    /\ UNCHANGED <<ncalls, ti>>

RunWithTickers ==
    /\ pc = "resolve" /\ tickers # <<>>
    /\ pc' = Following("resolve", i, tickers).pc
    /\ UNCHANGED <<db, call, ncalls, ti, tickers, i, trace, entry>>

RunCollectMarketHolidays ==
    /\ pc = "holidays"
    /\ \E api \in RunClientApis(HolidayObjs), dbfail \in Booleans :
          collect_market_holidays(api, dbfail)
    /\ Started(pc, NULL) /\ Within(NULL) /\ Goto(pc, tickers)
    /\ UNCHANGED <<ncalls, ti, tickers>>

RunCollectSnapshots ==
    /\ pc = "snapshots"
    /\ \E api \in RunClientApis(SnapshotObjs), dbfail \in Booleans :
          collect_snapshots(<<>>, api, dbfail)
    /\ Started(pc, NULL) /\ Within(NULL) /\ Goto(pc, tickers)
    /\ UNCHANGED <<ncalls, ti, tickers>>

RunCollectNews ==
    /\ pc = "news"
    /\ \E http \in RunNewsHttps, dbfail \in Booleans : collect_news(NULL, http, dbfail)
    /\ Started(pc, NULL) /\ Within(NULL) /\ Goto(pc, tickers)
    /\ UNCHANGED <<ncalls, ti, tickers>>

RunCollectDividends ==
    /\ pc = "dividends"
    /\ \E api \in RunClientApis(DividendObjs), dbfail \in Booleans :
          collect_dividends(NULL, api, dbfail)
    /\ Started(pc, NULL) /\ Within(NULL) /\ Goto(pc, tickers)
    /\ UNCHANGED <<ncalls, ti, tickers>>

RunCollectSplits ==
    /\ pc = "splits"
    /\ \E api \in RunClientApis(SplitObjs), dbfail \in Booleans :
          collect_splits(NULL, api, dbfail)
    /\ Started(pc, NULL) /\ Within(NULL) /\ Goto(pc, tickers)
    /\ UNCHANGED <<ncalls, ti, tickers>>

\* the three calls of collect_aggregates in the loop body
body_spans == [agg_day |-> <<"day", "1">>, agg_hour |-> <<"hour", "1">>,
               agg_minute |-> <<"minute", "5">>]

RunCollectAggregates ==
    /\ pc \in DOMAIN body_spans
    /\ \E api \in RunAggApis, dbfail \in Booleans :
          collect_aggregates(tickers[i], body_spans[pc][1], body_spans[pc][2], api, dbfail)
    /\ Started(pc, tickers[i]) /\ Within(tickers[i]) /\ Goto(pc, tickers)
    /\ UNCHANGED <<ncalls, ti, tickers>>

\* collect_technical_indicators: the call is left after its last request
RunCollectTechnicalIndicators ==
    /\ pc = "indicators"
    /\ \E http \in RunIndicatorHttps(indicators[IF ti.next = 0 THEN 1 ELSE ti.next]),
          dbfail \in Booleans :
          collect_technical_indicators(tickers[i], http, dbfail)
    /\ IF ti.next = 0 THEN Started(pc, tickers[i]) ELSE trace' = trace
    /\ Within(tickers[i])
    /\ IF ti'.next = 0 \/ call'.raised THEN Goto(pc, tickers)
       ELSE pc' = pc /\ i' = i
    /\ UNCHANGED <<ncalls, tickers>>

RunCollectTickerNews ==
    /\ pc = "ticker_news"
    /\ \E http \in RunNewsHttps, dbfail \in Booleans :
          collect_news(tickers[i], http, dbfail)
    /\ Started(pc, tickers[i]) /\ Within(tickers[i]) /\ Goto(pc, tickers)
    /\ UNCHANGED <<ncalls, ti, tickers>>

\* time.sleep(0.1)
RunSleep ==
    /\ pc = "sleep"
    /\ Started(pc, tickers[i])
    /\ pc' = Following(pc, i, tickers).pc
    /\ i' = Following(pc, i, tickers).i
    /\ UNCHANGED <<db, call, ncalls, ti, tickers, entry>>

RunGenerateSummaryReport ==
    /\ pc = "summary"
    /\ generate_summary_report
    /\ Started(pc, NULL) /\ Within(NULL) /\ Goto(pc, tickers)
    /\ UNCHANGED <<ncalls, ti, tickers>>

\* run_complete_collection is entered with a list of at most MaxTickers
\* symbols, or with none (the empty list stands for None too).
RunInit ==
    /\ db = EmptyDb
    /\ call = NoCall
    /\ ncalls = 1
    /\ ti = NoFrame
    /\ pc = "resolve"
    /\ tickers \in SeqsUpTo(Symbols, MaxTickers)
    /\ i = 0
    /\ trace = <<>>
    /\ entry = RunEntry

RunNext ==
    \/ RunCollectAllTickers
    \/ RunWithTickers
    \/ RunCollectMarketHolidays
    \/ RunCollectSnapshots
    \/ RunCollectNews
    \/ RunCollectDividends
    \/ RunCollectSplits
    \/ RunCollectAggregates
    \/ RunCollectTechnicalIndicators
    \/ RunCollectTickerNews
    \/ RunSleep
    \/ RunGenerateSummaryReport

RunSpec == RunInit /\ [][RunNext]_vars

\* The run is one sequential thread: whenever a statement can be executed,
\* it is.
FairRunSpec == RunSpec /\ WF_vars(RunNext)

----------------------------------------------------------------------------
\* Properties.

\* the table a collection step writes to
TableOf == [tickers |-> "tickers", aggregates |-> "aggregates",
            snapshots |-> "snapshots", indicators |-> "technical_indicators",
            news |-> "news", dividends |-> "dividends", splits |-> "stock_splits",
            holidays |-> "market_holidays"]

SameKey(a, b, key) == \A c \in key : a[c] = b[c]

\* C1: for the aggregates, snapshots, dividends, stock_splits and
\* market_holidays tables, when a collection is run a second time with the
\* API returning the same records and both runs are saved, the table holds
\* as many rows after the second run as after the first.
C1_RerunKeepsRowCount ==
    [][(/\ call.op \in {"aggregates", "snapshots", "dividends", "splits", "holidays"}
        /\ call'.op = call.op /\ call'.args = call.args /\ call'.api = call.api
        /\ call.saved /\ call'.saved)
       => Len(db'[TableOf[call.op]]) = Len(db[TableOf[call.op]])]_vars

\* C2: news is append-only.  Every row of the news table stays where it is
\* with all its columns, whatever a later collect_news call returns, and no
\* two rows of the table carry the same article id.
C2_NewsAppendOnly ==
    [][/\ IsPrefix(db["news"], db'["news"])
       /\ \A j, k \in 1..Len(db'["news"]) :
             (j # k /\ db'["news"][j].id # NULL)
                => db'["news"][j].id # db'["news"][k].id]_vars

\* an article id is stored and collect_news has just handed _save_news the
\* same id with another title, which was committed
C2_Witness ==
    /\ call.op = "news" /\ call.saved /\ ncalls = 2
    /\ \E row \in Range(db["news"]), new \in Range(call.batch) :
          row.id # NULL /\ new.id = row.id /\ new.title # row.title
    /\ entry.db0["news"] # <<>>


\* an exception was raised in the step recorded in c: by the API call, by
\* the parsing of the response or by the storage write
Failed(c) ==
    \/ c.api.raises
    \/ c.dbfail
    \/ ("http" \in DOMAIN c.api /\ ~c.api.http.raises
        /\ c.api.http.status = "200" /\ ~c.api.http.is_json)

\* C3 as claimed: when a collect_* call in which an exception was raised has
\* returned, it has not raised and every row the tables held when it was
\* entered is still there with the same column values.
C3_FailedCallKeepsEarlierRows ==
    (ti.next = 0 /\ entry.logged)
       => /\ ~call.raised
          /\ \A t \in Tables : Range(entry.db0[t]) \subseteq Range(db[t])

\* C3 as amended: a request in which an exception is raised logs an error,
\* raises nothing to its caller and writes nothing: the tables are after it
\* what they were before it.  A call of collect_technical_indicators makes
\* four requests; what its other requests wrote stays written.
C3_FailedRequestWritesNothing ==
    [][Failed(call') => (call'.logged /\ ~call'.raised /\ db' = db)]_vars

\* a request of collect_technical_indicators was answered and its storage
\* write raised, while the table held a row the write would have replaced:
\* the error was logged and the row is as it was
C3_Witness ==
    /\ call.op = "indicators" /\ Failed(call) /\ call.dbfail /\ call.logged
    /\ call.batch # <<>>
    /\ \E r \in Range(db["technical_indicators"]) :
          /\ SameKey(r, call.batch[1], PrimaryKey["technical_indicators"])
          /\ r # call.batch[1]

\* the API answered the step recorded in c successfully and with no record:
\* an iterator that yields nothing, an empty results list, an empty values list
ZeroRecords(c) ==
    /\ c.op \in DOMAIN TableOf
    /\ ~c.api.raises /\ c.api.records = <<>>
    /\ "http" \in DOMAIN c.api =>
          /\ c.api.http.status = "200" /\ c.api.http.is_json
          /\ "results" \in DOMAIN c.api.http.body
          /\ c.op = "indicators" => "values" \in DOMAIN c.api.http.body.results

\* C6: a collection step whose API response is successful and empty changes
\* no table, logs no error and raises nothing.
C6_EmptyResponseWritesNothing ==
    [][ZeroRecords(call') => (db' = db /\ ~call'.logged /\ ~call'.raised)]_vars

\* collect_all_tickers got an empty list of tickers while the tickers table
\* held rows, and called _save_tickers with the empty list
C6_Witness ==
    /\ ZeroRecords(call) /\ call.op = "tickers" /\ call.saved
    /\ db["tickers"] # <<>>

\* C7 as claimed: the rows of one (ticker, timestamp) pair have one indicator
\* type, which is one of the four kinds, and only macd rows have a signal
\* or a histogram value.
C7_OneTypePerTickerAndTimestamp ==
    \A r1, r2 \in Range(db["technical_indicators"]) :
        /\ r1.indicator_type \in Range(indicators)
        /\ r1.indicator_type # "macd" =>
              (r1.signal_value = NULL /\ r1.histogram_value = NULL)
        /\ (r1.ticker = r2.ticker /\ r1.timestamp = r2.timestamp)
              => r1.indicator_type = r2.indicator_type

\* C7 as amended: every row has one of the four kinds as its indicator type,
\* at most one row exists per (ticker, timestamp, indicator type), so that a
\* (ticker, timestamp) pair has up to four rows, one per kind, and the sma,
\* ema and rsi rows have neither a signal nor a histogram value.
C7_OneRowPerTickerTimestampAndType ==
    LET rows == db["technical_indicators"]
    IN  /\ \A k \in 1..Len(rows) :
              /\ rows[k].indicator_type \in Range(indicators)
              /\ rows[k].indicator_type # "macd" =>
                    (rows[k].signal_value = NULL /\ rows[k].histogram_value = NULL)
        /\ \A j, k \in 1..Len(rows) :
              (j # k /\ rows[j].timestamp # NULL
               /\ SameKey(rows[j], rows[k], PrimaryKey["technical_indicators"]))
                 => FALSE

\* one ticker and timestamp with a row of each of the four kinds, the macd
\* row with its signal and histogram
C7_Witness ==
    \E t \in Symbols :
        /\ \A kind \in Range(indicators) :
              \E r \in Range(db["technical_indicators"]) :
                  r.ticker = t /\ r.timestamp = "t1" /\ r.indicator_type = kind
        /\ \E r \in Range(db["technical_indicators"]) :
              r.indicator_type = "macd" /\ r.signal_value # NULL /\ r.histogram_value # NULL


\* C8: when collect_aggregates finds the aggregates table empty and saves n
\* bars with pairwise distinct timestamps, the table holds n rows afterwards,
\* one per bar, with the key (ticker, bar timestamp, timespan, multiplier) of
\* the call and the bar's open, high, low, close and volume; so it is for
\* the timespan 'day' and the multiplier 1.
C8_OneRowPerBar ==
    LET bars == call.api.records
        rows == db["aggregates"]
    IN  (/\ call.op = "aggregates" /\ call.saved
         /\ entry.db0["aggregates"] = <<>>
         /\ \A j, k \in 1..Len(bars) : j # k => bars[j].timestamp # bars[k].timestamp)
        => /\ Len(rows) = Len(bars)
           /\ \A k \in 1..Len(bars) :
                 \E r \in Range(rows) :
                    /\ r.ticker = call.args.ticker /\ r.timestamp = bars[k].timestamp
                    /\ r.timespan = call.args.timespan
                    /\ r.multiplier = call.args.multiplier
                    /\ r.open = bars[k].open /\ r.high = bars[k].high
                    /\ r.low = bars[k].low /\ r.close = bars[k].close
                    /\ r.volume = bars[k].volume

\* the scenario of the specification: three daily bars of "ABC" saved into
\* an empty table
C8_Witness ==
    /\ call.op = "aggregates" /\ call.saved /\ entry.db0["aggregates"] = <<>>
    /\ call.args = [NoArgs EXCEPT !.ticker = "ABC", !.timespan = "day", !.multiplier = "1"]
    /\ Len(call.api.records) = 3
    /\ Len(db["aggregates"]) = 3

\* the API call of the step recorded in c succeeded: the iterator ended, or
\* the endpoint answered 200 with a JSON body
ApiSucceeded(c) ==
    /\ c.op \in DOMAIN TableOf
    /\ ~c.api.raises
    /\ "http" \in DOMAIN c.api => (c.api.http.status = "200" /\ c.api.http.is_json)

\* the columns of a row that come from an attribute of the API record, as
\* <<column, attribute>>
Columns ==
    [tickers     |-> {<<"ticker", "ticker">>, <<"name", "name">>, <<"cik", "cik">>,
                      <<"composite_figi", "composite_figi">>,
                      <<"share_class_figi", "share_class_figi">>,
                      <<"last_updated_utc", "last_updated_utc">>},
     aggregates  |-> {<<"timestamp", "timestamp">>, <<"open", "open">>,
                      <<"close", "close">>, <<"vwap", "vwap">>,
                      <<"transactions", "transactions">>},
     snapshots   |-> {<<"ticker", "ticker">>, <<"change", "todays_change">>,
                      <<"change_percent", "todays_change_percent">>},
     indicators  |-> {<<"timestamp", "timestamp">>, <<"value", "value">>,
                      <<"signal_value", "signal">>, <<"histogram_value", "histogram">>},
     news        |-> {<<"id", "id">>, <<"title", "title">>, <<"author", "author">>,
                      <<"published_utc", "published_utc">>,
                      <<"article_url", "article_url">>, <<"amp_url", "amp_url">>,
                      <<"image_url", "image_url">>, <<"description", "description">>},
     dividends   |-> {<<"ticker", "ticker">>, <<"ex_dividend_date", "ex_dividend_date">>,
                      <<"amount", "cash_amount">>,
                      <<"declared_date", "declaration_date">>,
                      <<"flag", "dividend_type">>},
     splits      |-> {<<"ticker", "ticker">>, <<"execution_date", "execution_date">>,
                      <<"split_to", "split_to">>},
     holidays    |-> {<<"date", "date">>, <<"name", "name">>, <<"status", "status">>}]

\* `row` carries the attributes of `record`, NULL for those it lacks
Carries(op, row, record) ==
    \A ca \in Columns[op] :
        row[ca[1]] = IF ca[2] \in DOMAIN record THEN record[ca[2]] ELSE NULL

\* the list handed to the _save_* method has a row for each of `records`, in
\* order, and when the save has committed the table has a row with the key
\* of each
Written(c, records, d) ==
    /\ Len(c.batch) = Len(records)
    /\ \A k \in 1..Len(records) :
          /\ Carries(c.op, c.batch[k], records[k])
          /\ c.saved => \E r \in Range(d[TableOf[c.op]]) :
                           SameKey(r, c.batch[k], PrimaryKey[TableOf[c.op]])

\* C9 as claimed: when the API call has succeeded, every record it returned
\* is mapped to a row of the list handed to the bulk write, missing
\* attributes as NULL, in every domain.
C9_EveryRecordWritten ==
    ApiSucceeded(call) => Written(call, call.api.records, db)

\* C9 as amended: so it is in every domain but snapshots; of the snapshot
\* records, those with a day part are mapped and written and those without
\* are skipped.
C9_EveryRecordButDaylessSnapshotsWritten ==
    ApiSucceeded(call) =>
        Written(call,
                IF call.op = "snapshots"
                THEN SelectSeq(call.api.records, LAMBDA rec : "day" \in DOMAIN rec)
                ELSE call.api.records,
                db)

\* get_snapshot_all returned a record with a day part and one without: one
\* row was saved
C9_Witness ==
    /\ call.op = "snapshots" /\ call.saved
    /\ Len(call.api.records) = 2 /\ Len(call.batch) = 1
    /\ \E rec \in Range(call.api.records) : "day" \notin DOMAIN rec

\* C10: a call of collect_technical_indicators requests sma, ema, rsi and
\* macd in this order; after a request of any outcome the next kind is
\* requested, so that the call returns only after the four requests; and a
\* request leaves the rows of the other kinds in the table.
C10_AllKindsRequested ==
    [][call'.op = "indicators" =>
         /\ entry'.requests = SubSeq(indicators, 1, Len(entry'.requests))
         /\ call'.args.kind = indicators[Len(entry'.requests)]
         /\ IF ti'.next = 0 THEN entry'.requests = indicators
            ELSE ti'.next = Len(entry'.requests) + 1
         /\ \A r \in Range(db["technical_indicators"]) :
               r.indicator_type # call'.args.kind
                  => r \in Range(db'["technical_indicators"])]_vars

\* a call has returned after four requests of which one logged an error and
\* the last was saved, with the row of an earlier kind, saved by
\* this call, still in the table
C10_Witness ==
    /\ call.op = "indicators" /\ ti.next = 0
    /\ entry.logged /\ call.saved /\ call.batch # <<>>
    /\ entry.requests = indicators
    /\ \E r \in Range(db["technical_indicators"]) :
          /\ r.indicator_type = "ema"
          /\ r \notin Range(entry.db0["technical_indicators"])


\* the tickers whose loop body has run to the end of its sleep
Slept ==
    LET sleeps == SelectSeq(trace, LAMBDA e : e.step = "sleep")
    IN  [k \in 1..Len(sleeps) |-> sleeps[k].ticker]

\* C4: whichever collection operations fail, run_complete_collection goes
\* on: eventually the loop body has run for every ticker of the resolved
\* list, in list order, and the summary report has been generated.
C4_RunReachesSummary ==
    <>(/\ pc = "done"
       /\ Slept = tickers
       /\ trace[Len(trace)].step = "summary")

\* a run over MaxTickers tickers has ended although an operation before the
\* loop and an operation of every ticker logged an error
C4_Witness ==
    /\ pc = "done"
    /\ Len(tickers) = MaxTickers
    /\ Slept = tickers
    /\ entry.failed = {NULL} \cup Range(tickers)

\* the steps of the loop body for one ticker, as the specification lists them
StepsFor(ticker) ==
    <<[step |-> "agg_day", ticker |-> ticker],
      [step |-> "agg_hour", ticker |-> ticker],
      [step |-> "agg_minute", ticker |-> ticker],
      [step |-> "indicators", ticker |-> ticker],
      [step |-> "ticker_news", ticker |-> ticker],
      [step |-> "sleep", ticker |-> ticker]>>

RECURSIVE LoopSteps(_)
LoopSteps(list) ==
    IF list = <<>> THEN <<>> ELSE StepsFor(Head(list)) \o LoopSteps(Tail(list))

\* the steps of a whole run over `list`, resolved by collect_all_tickers or
\* given by the caller
RunSteps(resolved, list) ==
    (IF resolved THEN <<[step |-> "collect_all_tickers", ticker |-> NULL]>> ELSE <<>>)
    \o <<[step |-> "holidays", ticker |-> NULL],
         [step |-> "snapshots", ticker |-> NULL],
         [step |-> "news", ticker |-> NULL],
         [step |-> "dividends", ticker |-> NULL],
         [step |-> "splits", ticker |-> NULL]>>
    \o LoopSteps(list)
    \o <<[step |-> "summary", ticker |-> NULL]>>

\* the method, and the arguments, a step of the run calls
CallOf(e) ==
    CASE e.step = "collect_all_tickers" -> [op |-> "tickers", args |-> NoArgs]
      [] e.step = "agg_day" ->
            [op |-> "aggregates",
             args |-> [NoArgs EXCEPT !.ticker = e.ticker, !.timespan = "day",
                                     !.multiplier = "1"]]
      [] e.step = "agg_hour" ->
            [op |-> "aggregates",
             args |-> [NoArgs EXCEPT !.ticker = e.ticker, !.timespan = "hour",
                                     !.multiplier = "1"]]
      [] e.step = "agg_minute" ->
            [op |-> "aggregates",
             args |-> [NoArgs EXCEPT !.ticker = e.ticker, !.timespan = "minute",
                                     !.multiplier = "5"]]
      [] e.step = "indicators" ->
            [op |-> "indicators",
             args |-> [NoArgs EXCEPT !.ticker = e.ticker, !.kind = call.args.kind]]
      [] e.step \in {"ticker_news", "sleep"} ->
            [op |-> "news", args |-> [NoArgs EXCEPT !.ticker = e.ticker]]
      [] OTHER -> [op |-> e.step, args |-> NoArgs]

\* C5: the steps run_complete_collection has started are, at any moment, the
\* first steps of one fixed sequence: collect_all_tickers when no list was
\* given; holidays, snapshots, market-wide news, dividends, splits, once
\* each; for each ticker in list order the ('day', 1), ('hour', 1) and
\* ('minute', 5) aggregates, the indicators, the ticker's news and the sleep;
\* and the summary report. Each step calls the method of its name with its
\* ticker, and the run has ended when the whole sequence has been executed.
C5_FixedOrder ==
    LET resolved == trace # <<>> /\ trace[1].step = "collect_all_tickers"
        last     == trace[Len(trace)]
    IN  /\ IsPrefix(trace, RunSteps(resolved, tickers))
        /\ (trace # <<>> /\ ~resolved) => tickers # <<>>
        /\ trace # <<>> =>
              /\ call.op = CallOf(last).op
              /\ call.args = CallOf(last).args
        /\ (pc = "done") = (trace = RunSteps(resolved, tickers))

\* a run over two different tickers has ended
C5_Witness ==
    /\ pc = "done"
    /\ Len(tickers) = 2 /\ tickers[1] # tickers[2]
    /\ Len(trace) = 18
    /\ trace[6] = [step |-> "agg_day", ticker |-> tickers[1]]
    /\ trace[12] = [step |-> "agg_day", ticker |-> tickers[2]]


----------------------------------------------------------------------------
\* run_complete_collection over ticker lists around the limit of 100: the
\* listing of collect_all_tickers yields up to TickerLimit + MaxOver tickers
\* and ends, or raises after them, or its save raises; every other request
\* of the run is answered with one record, which is stored.

MaxOver == 1

Sym(k) == "T" \o ToString(k)

\* the first n tickers of the listing, in the order of the API
Listing(n) == [k \in 1..n |-> TickerObj(Sym(k), "n1", FALSE)]

ListedLengths == {0, 1, 2} \cup (TickerLimit .. TickerLimit + MaxOver)

\* the lists a caller passes: none (or an empty one), a short one, and one
\* longer than the limit
GivenLists ==
    {<<>>, <<"ABC">>, <<"XYZ", "ABC">>, [k \in 1..TickerLimit + MaxOver |-> Sym(k)]}

\* an article about one ticker
ArticleOf(ticker) ==
    [id |-> "n-" \o ticker, tickers |-> <<ticker>>, title |-> "T1", keywords |-> <<>>]

OneValue(indicator) ==
    CHOOSE v \in IndicatorValues(indicator) : v.value = "x1"

\* the history of the run: the list it was given, what the iterator of
\* list_tickers yielded, what collect_all_tickers returned and whether it
\* logged an error
UniverseEntry(given) ==
    [db0 |-> EmptyDb, logged |-> FALSE, requests |-> <<>>, failed |-> {},
     given |-> given, yielded |-> <<>>, listed |-> <<>>, listing_failed |-> FALSE]

\* `if not tickers:` with no list: collect_all_tickers() and all_tickers[:100]
LongCollectAllTickers ==
    /\ pc = "resolve" /\ tickers = <<>>
    /\ \E n \in ListedLengths, raises \in Booleans, dbfail \in Booleans :
          collect_all_tickers(ClientApi(Listing(n), raises), dbfail)
    /\ tickers' = [k \in 1..Len(FirstN(call'.ret, TickerLimit)) |->
                      FirstN(call'.ret, TickerLimit)[k].ticker]
    /\ Started("collect_all_tickers", NULL)
    /\ entry' = [entry EXCEPT !.logged = call'.logged,
                              !.failed = IF call'.logged THEN {NULL} ELSE {},
                              !.yielded = call'.api.records,
                              !.listed = call'.ret,
                              !.listing_failed = call'.logged]
    /\ Goto("resolve", tickers')
    /\ UNCHANGED <<ncalls, ti>>

\* the statements before the loop, each answered with one record
AnsweredMarketWide ==
    /\ pc \in Range(market_wide)
    /\ CASE pc = "holidays" ->
              collect_market_holidays(ClientApi(<<Holiday("d1", "closed")>>, FALSE), FALSE)
         [] pc = "snapshots" ->
              collect_snapshots(<<>>,
                                ClientApi(<<[ticker |-> "ABC", day |-> Day("t1", "1")]>>,
                                          FALSE),
                                FALSE)
         [] pc = "news" ->
              collect_news(NULL,
                           HttpResponse("200", TRUE, [results |-> <<ArticleOf("ABC")>>]),
                           FALSE)
         [] pc = "dividends" ->
              collect_dividends(NULL, ClientApi(<<Dividend("ABC", "d1", "a1", TRUE)>>, FALSE),
                                FALSE)
         [] pc = "splits" ->
              collect_splits(NULL, ClientApi(<<Split("ABC", "d1", "2")>>, FALSE), FALSE)
    /\ Started(pc, NULL) /\ Within(NULL) /\ Goto(pc, tickers)
    /\ UNCHANGED <<ncalls, ti, tickers>>

\* the three calls of collect_aggregates of the loop body, one bar each
AnsweredAggregates ==
    /\ pc \in DOMAIN body_spans
    /\ collect_aggregates(tickers[i], body_spans[pc][1], body_spans[pc][2],
                          ClientApi(<<Bar("t1", "1", TRUE)>>, FALSE), FALSE)
    /\ Started(pc, tickers[i]) /\ Within(tickers[i]) /\ Goto(pc, tickers)
    /\ UNCHANGED <<ncalls, ti, tickers>>

\* collect_technical_indicators, one value per kind
AnsweredTechnicalIndicators ==
    /\ pc = "indicators"
    /\ LET indicator == indicators[IF ti.next = 0 THEN 1 ELSE ti.next]
       IN  collect_technical_indicators(
               tickers[i],
               HttpResponse("200", TRUE, [results |-> [values |-> <<OneValue(indicator)>>]]),
               FALSE)
    /\ IF ti.next = 0 THEN Started(pc, tickers[i]) ELSE trace' = trace
    /\ Within(tickers[i])
    /\ IF ti'.next = 0 \/ call'.raised THEN Goto(pc, tickers)
       ELSE pc' = pc /\ i' = i
    /\ UNCHANGED <<ncalls, tickers>>

\* collect_news(ticker, limit=50), one article about the ticker
AnsweredTickerNews ==
    /\ pc = "ticker_news"
    /\ collect_news(tickers[i],
                    HttpResponse("200", TRUE, [results |-> <<ArticleOf(tickers[i])>>]),
                    FALSE)
    /\ Started(pc, tickers[i]) /\ Within(tickers[i]) /\ Goto(pc, tickers)
    /\ UNCHANGED <<ncalls, ti, tickers>>

UniverseInit ==
    /\ db = EmptyDb
    /\ call = NoCall
    /\ ncalls = 1
    /\ ti = NoFrame
    /\ pc = "resolve"
    /\ tickers \in GivenLists
    /\ i = 0
    /\ trace = <<>>
    /\ entry = UniverseEntry(tickers)

UniverseNext ==
    \/ LongCollectAllTickers
    \/ RunWithTickers
    \/ AnsweredMarketWide
    \/ AnsweredAggregates
    \/ AnsweredTechnicalIndicators
    \/ AnsweredTickerNews
    \/ RunSleep
    \/ RunGenerateSummaryReport

UniverseSpec == UniverseInit /\ [][UniverseNext]_vars

\* the symbols of the first hundred of a list of ticker records
FirstHundred(list) ==
    [k \in 1..(IF Len(list) < 100 THEN Len(list) ELSE 100) |-> list[k].ticker]

\* C11: once the ticker universe is resolved, the list of the per-ticker
\* loop is the list the caller gave, whatever its length, and then
\* collect_all_tickers is not called; with no list, or an empty one, it is
\* the first 100 tickers collect_all_tickers returned, in the order of the
\* API, or all of them when there are fewer. The loop body runs for the
\* tickers of this list in order, and for all of them when the run ends.
C11_TickerUniverse ==
    pc # "resolve" =>
       /\ IF entry.given # <<>>
          THEN /\ tickers = entry.given
               /\ \A k \in 1..Len(trace) : trace[k].step # "collect_all_tickers"
          ELSE /\ trace[1].step = "collect_all_tickers"
               /\ \A k \in 2..Len(trace) : trace[k].step # "collect_all_tickers"
               /\ entry.listed = [k \in 1..Len(entry.yielded) |-> TickerRow(entry.yielded[k])]
               /\ tickers = FirstHundred(entry.listed)
       /\ IsPrefix(Slept, tickers)
       /\ pc = "done" => Slept = tickers

\* a run without a list has ended: the listing had more than 100 tickers
\* and the loop body ran for the first 100
C11_Witness ==
    /\ pc = "done"
    /\ entry.given = <<>>
    /\ Len(entry.listed) > 100
    /\ Len(Slept) = 100
    /\ Slept[1] = "T1" /\ Slept[100] = "T100"


\* C12: when a _save_* call hands control back to its caller, whether it
\* returns or raises, the connection it opened is closed.
C12_ConnectionsClosed ==
    call.conn # "open"


\* the natural keys present in a table: the primary key columns of its rows
Keys(t, rows) == {[c \in PrimaryKey[t] |-> r[c]] : r \in Range(rows)}

\* C13: no step of any operation removes a natural key from any of the
\* eight tables: the keys a table holds before the step are among those it
\* holds after it; and generate_summary_report leaves every table as it is.
C13_KeysOnlyGrow ==
    [][/\ \A t \in Tables : Keys(t, db[t]) \subseteq Keys(t, db'[t])
       /\ call'.op = "summary" => db' = db]_vars

\* a collection has replaced a stored row by one of other column values:
\* the row is gone, its key is still there, next to the key of another row
C13_Witness ==
    /\ call.op \in DOMAIN TableOf /\ call.saved
    /\ LET t == TableOf[call.op]
       IN  /\ \E old \in Range(entry.db0[t]) : old \notin Range(db[t])
           /\ Keys(t, entry.db0[t]) \subseteq Keys(t, db[t])
           /\ Keys(t, entry.db0[t]) # Keys(t, db[t])


\* the ticker has rows in the aggregates, technical_indicators and news tables
HasRows(ticker) ==
    \A t \in {"aggregates", "technical_indicators", "news"} :
        \E r \in Range(db[t]) : r.ticker = ticker

\* C14: when collect_all_tickers has logged an error after list_tickers
\* yielded k >= 1 records, it has returned the k records and none of them is
\* in the tickers table; the run without a list goes through the first 100
\* of them in order, and each ticker the loop body has run for has its
\* aggregate, indicator and news rows while it has no row in the tickers
\* table.
C14_UncommittedTickersProcessed ==
    (/\ pc # "resolve" /\ entry.given = <<>>
     /\ entry.listing_failed /\ entry.yielded # <<>>)
    => /\ entry.listed = [k \in 1..Len(entry.yielded) |-> TickerRow(entry.yielded[k])]
       /\ db["tickers"] = <<>>
       /\ tickers = FirstHundred(entry.listed)
       /\ IsPrefix(Slept, tickers)
       /\ pc = "done" => Slept = tickers
       /\ \A k \in 1..Len(Slept) : HasRows(Slept[k])

\* a run has ended whose listing of 101 tickers failed: the loop body ran
\* for the first 100, which have their rows, and the tickers table is empty
C14_Witness ==
    /\ pc = "done"
    /\ entry.given = <<>> /\ entry.listing_failed
    /\ Len(entry.listed) = 101
    /\ Len(Slept) = 100
    /\ HasRows("T1") /\ HasRows("T100") /\ ~HasRows("T101")
    /\ db["tickers"] = <<>>

====
